---- MODULE Spec2Model ----
(***************************************************************************)
(* A model of huffman-markov: the sliding-window primitive (util.rs), the  *)
(* fixed-depth sequence model (markov.rs), the Huffman tree builder, the   *)
(* code table and the bit-packing writer (huffman.rs).                     *)
(***************************************************************************)
EXTENDS Integers, Sequences, FiniteSets, TLC

\* ------------------------------------------------------------------ bounds

\* Stream bytes are 0..MaxByte, a scaled-down u8 alphabet.
MaxByte == 1
\* The bytes of weighted items and of the two passes are 0..MaxSymbol.
MaxSymbol == 2
\* Largest window size / model order explored.
MaxDepth == 4
\* Longest stream delivered to a streaming consumer, all chunks together.
MaxStream == 5
\* The scaled-down usize::MAX at which saturating_add saturates.
UsizeMax == 3
\* Number of successful Markov::insert calls explored on one model.
MaxOps == 2
\* Largest order of a model driven through insert and get directly.
MaxOrder == 2
\* Longest training stream and longest encoded stream of the two passes.
MaxTrain == 3
MaxEnc == 2
\* Largest number of weighted items handed to the Huffman builder.
MaxItems == 3
\* Number of flush calls explored on one encoder writer.
MaxFlush == 2
\* Longest file taken through both passes of compress.
MaxFile == 4
\* Most symbols, and the largest weight, of the symbol sets whose trees have
\* several internal nodes of equal weight.
MaxWide == 4
MaxWideWeight == 2

Bytes == 0..MaxByte
Symbols == 0..MaxSymbol

SeqsUpTo(S, n) == UNION {[1..k -> S] : k \in 0..n}

Min(a, b) == IF a < b THEN a ELSE b

\* A plausible slip: one element too few is kept of a longer sequence.
LastNShort(s, n) ==
    IF Len(s) < n THEN s ELSE SubSeq(s, Len(s) - n + 2, Len(s))

\* The last n elements of s (all of s when it is shorter).
LastN(s, n) == IF Len(s) <= n THEN s ELSE SubSeq(s, Len(s) - n + 1, Len(s))

\* The first n elements of s (all of s when it is shorter).
FirstN(s, n) == IF Len(s) <= n THEN s ELSE SubSeq(s, 1, n)

VARIABLES
    \* util.rs: one stream driven through buffered_windows; n_chunks counts
    \* the calls with a nonempty chunk, empty_seen tells of one with none
    window_size, buffer, stream, calls, w_ok, n_chunks, empty_seen,
    \* markov.rs: a Markov model, the last call's outcome, and what was inserted
    markov, m_ret, inserted, m_ops,
    \* markov.rs: a Writer over a Markov model; n_writes counts its writes
    \* of a nonempty input
    mw_markov, mw_buffer, mw_stream, n_writes,
    \* huffman.rs: Node::new, step by step
    items, heap, tree, code, h_pc,
    \* huffman.rs: Encoder and its Writer over a byte sink
    \* n_bufs counts the writes of a nonempty buf
    encoder, ew_buffer, ew_stream, bits, bitqueue, sink, ew_ret, ew_state,
    ew_flushes, ew_events, n_bufs

winVars == <<window_size, buffer, stream, calls, w_ok, n_chunks, empty_seen>>
markovVars == <<markov, m_ret, inserted, m_ops>>
mwVars == <<mw_markov, mw_buffer, mw_stream, n_writes>>
huffVars == <<items, heap, tree, code, h_pc>>
encVars == <<encoder, ew_buffer, ew_stream, bits, bitqueue, sink, ew_ret,
             ew_state, ew_flushes, ew_events, n_bufs>>
vars == <<winVars, markovVars, mwVars, huffVars, encVars>>

\* --------------------------------------------------------------- util.rs

\* slice::windows(w): every contiguous window of w elements, left to right.
Windows(s, w) ==
    IF Len(s) < w THEN <<>>
    ELSE [i \in 1..(Len(s) - w + 1) |-> SubSeq(s, i, i + w - 1)]

\* A plausible slip: the carry is rebuilt from the new chunk alone.
NextBufferInputOnly(buf, input) == LastN(input, Len(buf))

\* The carry after a call: the last buffer.len() elements of buffer ++ input.
NextBuffer(buf, input) == LastN(buf \o input, Len(buf))

\* buffered_windows with a callback that succeeds `budget` times and fails
\* on the call after that.  calls lists the windows the callback was invoked
\* on (the failing invocation included); buffer is the carry on return.
RECURSIVE BufferedWindows(_, _, _, _)
BufferedWindows(w, buf, input, budget) ==
    IF input = <<>> THEN [ok |-> TRUE, buffer |-> buf, calls |-> <<>>]
    ELSE IF Len(buf) < w - 1
    THEN BufferedWindows(w, Append(buf, Head(input)), Tail(input), budget)
    ELSE LET count == Min(Len(input), Len(buf))
             ext == buf \o SubSeq(input, 1, count)
             first == Windows(ext, w)
             second == Windows(input, w)
         IN  IF Len(first) > budget
             THEN [ok |-> FALSE, buffer |-> ext,
                   calls |-> SubSeq(first, 1, budget + 1)]
             ELSE IF Len(first) + Len(second) > budget
             THEN [ok |-> FALSE, buffer |-> buf,
                   calls |-> first \o SubSeq(second, 1, budget - Len(first) + 1)]
             ELSE [ok |-> TRUE, buffer |-> NextBuffer(buf, input),
                   calls |-> first \o second]

\* A callback budget no call of the model exhausts.
NoFailure == MaxStream + MaxTrain + MaxEnc + 1

WinIdle ==
    /\ window_size = 1
    /\ buffer = <<>>
    /\ stream = <<>>
    /\ calls = <<>>
    /\ w_ok = TRUE
    /\ n_chunks = 0
    /\ empty_seen = FALSE

\* One call buffered_windows(window_size, &mut buffer, chunk, write).
Deliver(chunk, budget) ==
    /\ w_ok
    /\ Len(stream) + Len(chunk) <= MaxStream
    /\ LET r == BufferedWindows(window_size, buffer, chunk, budget)
       IN  /\ buffer' = r.buffer
           /\ calls' = calls \o r.calls
           /\ w_ok' = r.ok
    /\ stream' = stream \o chunk
    /\ n_chunks' = n_chunks + (IF chunk = <<>> THEN 0 ELSE 1)
    /\ empty_seen' = (empty_seen \/ chunk = <<>>)
    /\ UNCHANGED window_size

\* ------------------------------------------------------------- markov.rs

\* A trie is a function from the paths of its nodes to their contents: the
\* root is at <<>>, the child under byte b of the node at p is at p \o <<b>>.
MapNode == [kind |-> "Node", weight |-> 0]
LeafNode(w) == [kind |-> "Leaf", weight |-> w]

\* Markov::new(depth)
MarkovNew(d) == [depth |-> d, root |-> (<<>> :> MapNode)]

\* A plausible slip: a plain wrapping add.
WrappingAdd(a, b) == (a + b) % (UsizeMax + 1)

\* usize::saturating_add
SaturatingAdd(a, b) == IF a + b > UsizeMax THEN UsizeMax ELSE a + b

\* A plausible slip: the default is a map down to the last level too
\* (index <= depth - 1).
RECURSIVE InsertFoldMapAtLeaf(_, _, _, _)
InsertFoldMapAtLeaf(root, d, seq, i) ==
    IF i > Len(seq) THEN [panic |-> FALSE, root |-> root]
    ELSE LET at == SubSeq(seq, 1, i - 1)
             child == SubSeq(seq, 1, i)
             default == IF i - 1 <= d - 1 THEN MapNode ELSE LeafNode(0)
         IN  IF root[at].kind # "Node" THEN [panic |-> TRUE, root |-> root]
             ELSE InsertFoldMapAtLeaf(IF child \in DOMAIN root THEN root
                                      ELSE root @@ (child :> default),
                                      d, seq, i + 1)

\* The fold of Markov::insert from step i on: the node reached so far is at
\* SubSeq(seq, 1, i - 1); node_mut().unwrap() panics on a leaf; the entry for
\* seq[i] is created when absent, a map above the last level, a zero leaf at
\* the last one.
RECURSIVE InsertFold(_, _, _, _)
InsertFold(root, d, seq, i) ==
    IF i > Len(seq) THEN [panic |-> FALSE, root |-> root]
    ELSE LET at == SubSeq(seq, 1, i - 1)
             child == SubSeq(seq, 1, i)
             default == IF i - 1 < d - 1 THEN MapNode ELSE LeafNode(0)
         IN  IF root[at].kind # "Node" THEN [panic |-> TRUE, root |-> root]
             ELSE InsertFold(IF child \in DOMAIN root THEN root
                             ELSE root @@ (child :> default),
                             d, seq, i + 1)

\* Markov::insert past its length check: the walk, then the saturating add
\* on the leaf reached (unreachable!() on a map).
InsertWalk(m, seq, weight) ==
    LET f == InsertFold(m.root, m.depth, seq, 1)
    IN  IF f.panic \/ f.root[seq].kind # "Leaf"
        THEN [status |-> "Panic", value |-> 0,
              markov |-> [m EXCEPT !.root = f.root]]
        ELSE LET count == SaturatingAdd(f.root[seq].weight, weight)
             IN  [status |-> "Ok", value |-> count,
                  markov |-> [m EXCEPT !.root =
                                [f.root EXCEPT ![seq] = LeafNode(count)]]]

\* A plausible slip: the length is checked after the walk that creates the
\* path.
MarkovInsertLateCheck(m, seq, weight) ==
    IF Len(seq) # m.depth
    THEN [status |-> "Err", value |-> 0,
          markov |-> [m EXCEPT !.root =
                        InsertFold(m.root, m.depth, FirstN(seq, m.depth), 1).root]]
    ELSE InsertWalk(m, seq, weight)

\* Markov::insert(sequence, weight)
MarkovInsert(m, seq, weight) ==
    IF Len(seq) # m.depth THEN [status |-> "Err", value |-> 0, markov |-> m]
    ELSE InsertWalk(m, seq, weight)

\* The fold of Markov::get: whether a node is reached (Some) or not (None).
RECURSIVE GetFold(_, _, _, _)
GetFold(root, seq, i, found) ==
    IF i > Len(seq) THEN found
    ELSE LET at == SubSeq(seq, 1, i - 1)
             child == SubSeq(seq, 1, i)
         IN  IF ~found THEN FALSE
             ELSE IF root[at].kind = "Node"
             THEN GetFold(root, seq, i + 1, child \in DOMAIN root)
             ELSE FALSE

\* Markov::get(sequence): Err, Ok(None) or Ok(Some(node))
MarkovGet(m, seq) ==
    IF Len(seq) # m.depth
    THEN [status |-> "Err", some |-> FALSE, node |-> MapNode]
    ELSE IF GetFold(m.root, seq, 1, TRUE)
    THEN [status |-> "Ok", some |-> TRUE, node |-> m.root[seq]]
    ELSE [status |-> "Ok", some |-> FALSE, node |-> MapNode]

\* The weight inserted by the SequenceWriter implementation of Markov.
DEFAULT_WEIGHT == 1

\* <Markov as SequenceWriter>::write over a list of windows, stopping at the
\* first error (the `?` of buffered_windows).
RECURSIVE WriteWindows(_, _)
WriteWindows(m, windows) ==
    IF windows = <<>> THEN [status |-> "Ok", markov |-> m]
    ELSE LET r == MarkovInsert(m, Head(windows), DEFAULT_WEIGHT)
         IN  IF r.status = "Ok" THEN WriteWindows(r.markov, Tail(windows))
             ELSE [status |-> r.status, markov |-> r.markov]

\* The bytes of the sequences handed to Markov::insert and Markov::get.
Keys == {0, 1}
\* The weights handed to Markov::insert: none, one, and the largest usize.
Weights == {0, 1, UsizeMax}
\* The sequences handed to Markov::insert and Markov::get: every length from
\* empty to one more than the largest order.
ApiSeqs == SeqsUpTo(Keys, MaxOrder + 1)

\* What has been inserted under seq so far: the true sum of the weights, the
\* largest of them and their number.
Record(ins, seq, weight) ==
    IF seq \in DOMAIN ins
    THEN [ins EXCEPT ![seq] = [sum |-> @.sum + weight,
                               max |-> IF weight > @.max THEN weight ELSE @.max,
                               n |-> @.n + 1]]
    ELSE ins @@ (seq :> [sum |-> weight, max |-> weight, n |-> 1])

MarkovIdle ==
    /\ markov = MarkovNew(1)
    /\ m_ret = [op |-> "new", seq |-> <<>>, status |-> "Ok", value |-> 0,
                some |-> FALSE, node |-> MapNode]
    /\ inserted = <<>>
    /\ m_ops = 0

\* markov.insert(seq, weight)
Insert(seq, weight) ==
    /\ m_ops < MaxOps \/ Len(seq) # markov.depth
    /\ m_ret.status # "Panic"
    /\ LET r == MarkovInsert(markov, seq, weight)
       IN  /\ markov' = r.markov
           /\ m_ret' = [op |-> "insert", seq |-> seq, status |-> r.status,
                        value |-> r.value, some |-> FALSE, node |-> MapNode]
           /\ inserted' = IF r.status = "Ok"
                          THEN Record(inserted, seq, weight)
                          ELSE inserted
    /\ m_ops' = m_ops + (IF MarkovInsert(markov, seq, weight).status = "Ok" THEN 1 ELSE 0)

\* markov.get(seq)
Get(seq) ==
    /\ m_ret.status # "Panic"
    /\ LET r == MarkovGet(markov, seq)
       IN  m_ret' = [op |-> "get", seq |-> seq, status |-> r.status, value |-> 0,
                     some |-> r.some, node |-> r.node]
    /\ UNCHANGED <<markov, inserted, m_ops>>

\* A Writer over a Markov model: Writer::new
MwIdle ==
    /\ mw_markov = MarkovNew(1)
    /\ mw_buffer = <<>>
    /\ mw_stream = <<>>
    /\ n_writes = 0

\* A plausible slip: every write starts from an empty carry.
MarkovWriterWriteNoCarry(m, buf, input) ==
    LET w == BufferedWindows(m.depth, <<>>, input, NoFailure)
        r == WriteWindows(m, w.calls)
    IN  [status |-> IF r.status = "Ok" THEN "Ok" ELSE "Panic",
         markov |-> r.markov, buffer |-> w.buffer]

\* Writer::write(input): buffered_windows with Markov's SequenceWriter as
\* the callback, and unwrap() on its result.
MarkovWriterWrite(m, buf, input) ==
    LET w == BufferedWindows(m.depth, buf, input, NoFailure)
        r == WriteWindows(m, w.calls)
    IN  [status |-> IF r.status = "Ok" THEN "Ok" ELSE "Panic",
         markov |-> r.markov, buffer |-> w.buffer]

\* ------------------------------------------------------------ huffman.rs

\* huffman::Node: Leaf(u8) is [leaf |-> b], Node {left, right} is
\* [left |-> l, right |-> r].
Leaf(b) == [leaf |-> b]
Branch(l, r) == [left |-> l, right |-> r]
IsLeaf(n) == "leaf" \in DOMAIN n

IntCmp(a, b) == IF a < b THEN -1 ELSE IF a > b THEN 1 ELSE 0

\* #[derive(Ord)] on Node: variants in declaration order (Leaf before Node),
\* leaves by byte, nodes by left and then right.
RECURSIVE NodeCmp(_, _)
NodeCmp(a, b) ==
    IF IsLeaf(a) THEN (IF IsLeaf(b) THEN IntCmp(a.leaf, b.leaf) ELSE -1)
    ELSE IF IsLeaf(b) THEN 1
    ELSE LET c == NodeCmp(a.left, b.left)
         IN  IF c # 0 THEN c ELSE NodeCmp(a.right, b.right)

\* A plausible slip: an ordering by weight alone, ties left to the heap.
WeightOnlyCmp(x, y) == IntCmp(x.weight, y.weight)

\* #[derive(Ord)] on WeightedNode: weight, then node.
WeightedNodeCmp(x, y) ==
    IF x.weight # y.weight THEN IntCmp(x.weight, y.weight)
    ELSE NodeCmp(x.node, y.node)

\* The heap is the sequence of its entries in arrival order; BinaryHeap<
\* Reverse<WeightedNode>>::pop takes out the least entry.
HeapMin(h) ==
    CHOOSE i \in 1..Len(h) :
        \A j \in 1..Len(h) :
            j # i => \/ WeightedNodeCmp(h[i], h[j]) < 0
                     \/ (WeightedNodeCmp(h[i], h[j]) = 0 /\ i < j)

Remove(h, i) == SubSeq(h, 1, i - 1) \o SubSeq(h, i + 1, Len(h))

\* items.map(|item| Reverse(WeightedNode {..})).collect()
HeapCollect(its) ==
    [i \in 1..Len(its) |-> [weight |-> its[i].weight, node |-> Leaf(its[i].item)]]

\* A plausible slip: the second entry popped becomes the left child.
CombineSwapped(h) ==
    LET i == HeapMin(h)
        left == h[i]
        h1 == Remove(h, i)
        j == HeapMin(h1)
        right == h1[j]
    IN  Append(Remove(h1, j),
               [weight |-> SaturatingAdd(left.weight, right.weight),
                node |-> Branch(right.node, left.node)])

\* One round of the while loop of Node::new: pop left, pop right, push the
\* node joining them.
Combine(h) ==
    LET i == HeapMin(h)
        left == h[i]
        h1 == Remove(h, i)
        j == HeapMin(h1)
        right == h1[j]
    IN  Append(Remove(h1, j),
               [weight |-> SaturatingAdd(left.weight, right.weight),
                node |-> Branch(left.node, right.node)])

RECURSIVE CombineAll(_)
CombineAll(h) == IF Len(h) > 1 THEN CombineAll(Combine(h)) ELSE h

NoNode == [some |-> FALSE, node |-> Leaf(0)]

\* let root = heap.pop()?.0; Some(root.node)
HeapRoot(h) == IF h = <<>> THEN NoNode ELSE [some |-> TRUE, node |-> h[1].node]

\* Node::new(items): None for no items, else the root of the tree.
NodeNew(its) == HeapRoot(CombineAll(HeapCollect(its)))

Reverse(s) == [i \in 1..Len(s) |-> s[Len(s) + 1 - i]]

\* What Node::iter records at a leaf: prefix.reverse()
LeafCode(prefix) == Reverse(prefix)

\* Node::iter(prefix): the (bits, byte) pairs, left subtree first.
RECURSIVE NodeIter(_, _)
NodeIter(n, prefix) ==
    IF IsLeaf(n) THEN << <<LeafCode(prefix), n.leaf>> >>
    ELSE NodeIter(n.left, Append(prefix, 0))
         \o NodeIter(n.right, Append(prefix, 1))

\* A plausible slip: the right subtree is not traversed.
NodeEncodingLeftOnly(n) ==
    LET pairs == IF IsLeaf(n) THEN NodeIter(n, <<>>)
                 ELSE NodeIter(n.left, <<0>>)
    IN  [b \in {pairs[i][2] : i \in 1..Len(pairs)} |->
            pairs[CHOOSE i \in 1..Len(pairs) : pairs[i][2] = b][1]]

\* Node::encoding(): the pairs collected into a map from byte to bits; a
\* later pair replaces an earlier one for the same byte.
NodeEncoding(n) ==
    LET pairs == NodeIter(n, <<>>)
    IN  [b \in {pairs[i][2] : i \in 1..Len(pairs)} |->
            pairs[CHOOSE i \in 1..Len(pairs) :
                    /\ pairs[i][2] = b
                    /\ \A j \in (i + 1)..Len(pairs) : pairs[j][2] # b][1]]

\* The leaves of a tree, left to right.
RECURSIVE Leaves(_)
Leaves(n) == IF IsLeaf(n) THEN <<n.leaf>> ELSE Leaves(n.left) \o Leaves(n.right)

\* The weighted items handed to Node::new: any weights, distinct bytes, in
\* any order.
ItemLists ==
    {its \in SeqsUpTo([weight : 0..UsizeMax, item : Symbols], MaxItems) :
        \A i, j \in 1..Len(its) : i # j => its[i].item # its[j].item}

\* Larger symbol sets of small positive weights, in any order.
WideItemLists ==
    {its \in SeqsUpTo([weight : 1..MaxWideWeight, item : 0..(MaxWide - 1)], MaxWide) :
        \A i, j \in 1..Len(its) : i # j => its[i].item # its[j].item}

HuffIdle ==
    /\ items = <<>>
    /\ heap = <<>>
    /\ tree = NoNode
    /\ code = <<>>
    /\ h_pc = "idle"

\* Node::new, the collect into the heap
NodeNewCollect ==
    /\ h_pc = "new"
    /\ heap' = HeapCollect(items)
    /\ h_pc' = "loop"
    /\ UNCHANGED <<items, tree, code>>

\* Node::new, one round of the loop
NodeNewCombine ==
    /\ h_pc = "loop"
    /\ Len(heap) > 1
    /\ heap' = Combine(heap)
    /\ UNCHANGED <<items, tree, code, h_pc>>

\* Node::new, the exit of the loop and the return
NodeNewReturn ==
    /\ h_pc = "loop"
    /\ Len(heap) <= 1
    /\ tree' = HeapRoot(heap)
    /\ heap' = <<>>
    /\ h_pc' = IF heap = <<>> THEN "none" ELSE "built"
    /\ UNCHANGED <<items, code>>

\* node.encoding() on the tree returned
Encoding ==
    /\ h_pc = "built"
    /\ code' = NodeEncoding(tree.node)
    /\ h_pc' = "encoded"
    /\ UNCHANGED <<items, heap, tree>>

\* ------------------------------------------ markov.rs: iter_prefix

RECURSIVE SortedSeq(_)
SortedSeq(S) ==
    IF S = {} THEN <<>>
    ELSE LET m == CHOOSE x \in S : \A y \in S : x <= y
         IN  <<m>> \o SortedSeq(S \ {m})

\* The keys of the map at path p, in the ascending order of BTreeMap::iter.
ChildKeys(root, p) ==
    SortedSeq({q[Len(q)] : q \in {r \in DOMAIN root :
                   Len(r) = Len(p) + 1 /\ SubSeq(r, 1, Len(p)) = p}})

\* Node::iter_prefix(prefix, length), consumed to its end: the (prefix,
\* items) pairs in order, or a panic of one of its unwrap() calls.
RECURSIVE IterPrefix(_, _, _)
RECURSIVE IterPrefixEach(_, _, _, _)
IterPrefix(root, prefix, length) ==
    IF root[prefix].kind # "Node" THEN [panic |-> TRUE, out |-> <<>>]
    ELSE LET keys == ChildKeys(root, prefix)
         IN  IF length = 0
             THEN IF \E i \in 1..Len(keys) :
                        root[Append(prefix, keys[i])].kind # "Leaf"
                  THEN [panic |-> TRUE, out |-> <<>>]
                  ELSE [panic |-> FALSE,
                        out |-> << <<prefix,
                            [i \in 1..Len(keys) |->
                                [weight |-> root[Append(prefix, keys[i])].weight,
                                 item |-> keys[i]]]>> >>]
             ELSE IterPrefixEach(root, prefix, keys, length)
IterPrefixEach(root, prefix, keys, length) ==
    IF keys = <<>> THEN [panic |-> FALSE, out |-> <<>>]
    ELSE LET first == IterPrefix(root, Append(prefix, Head(keys)), length - 1)
             rest == IterPrefixEach(root, prefix, Tail(keys), length)
         IN  [panic |-> first.panic \/ rest.panic, out |-> first.out \o rest.out]

\* Markov::iter_prefix()
MarkovIterPrefix(m) == IterPrefix(m.root, <<>>, m.depth - 1)

\* --------------------------------------- huffman.rs: Decoder, Encoder

\* Decoder::new(markov): one tree per context; Node::new(..).unwrap()
\* panics on a context without items.
DecoderNew(m) ==
    LET it == MarkovIterPrefix(m)
        ctx == {it.out[i][1] : i \in 1..Len(it.out)}
        itemsOf(c) == it.out[CHOOSE i \in 1..Len(it.out) : it.out[i][1] = c][2]
    IN  IF it.panic \/ \E i \in 1..Len(it.out) : ~NodeNew(it.out[i][2]).some
        THEN [panic |-> TRUE, depth |-> m.depth, trees |-> <<>>]
        ELSE [panic |-> FALSE, depth |-> m.depth,
              trees |-> [c \in ctx |-> NodeNew(itemsOf(c)).node]]

\* Encoder::new(decoder): the code table, one map from byte to bits per
\* context.
EncoderNew(d) ==
    [depth |-> d.depth,
     prefixes |-> [c \in DOMAIN d.trees |-> NodeEncoding(d.trees[c])]]

\* Encoder::encode(prefix, byte): None for an unknown context or byte.
EncoderEncode(e, prefix, byte) ==
    IF prefix \in DOMAIN e.prefixes /\ byte \in DOMAIN e.prefixes[prefix]
    THEN [some |-> TRUE, bits |-> e.prefixes[prefix][byte]]
    ELSE [some |-> FALSE, bits |-> <<>>]

\* ------------------------------------------------ huffman.rs: Writer

\* The value of eight bits, the first one the most significant (BigEndian).
RECURSIVE ByteValue(_)
ByteValue(q) == IF q = <<>> THEN 0 ELSE 2 * ByteValue(SubSeq(q, 1, Len(q) - 1)) + q[Len(q)]

\* BitWriter::write_bit: the bit joins the queue; a full queue is taken out
\* and written to the sink as one byte, which fails when the sink does.
\* o is the output side of the writer: [bitqueue, sink, bits, failed].
WriteBit(o, bit, sink_ok) ==
    LET q == Append(o.bitqueue, bit)
    IN  IF Len(q) < 8
        THEN [o EXCEPT !.bitqueue = q, !.bits = Append(@, bit)]
        ELSE IF sink_ok
        THEN [o EXCEPT !.bitqueue = <<>>, !.bits = Append(@, bit),
                       !.sink = Append(@, ByteValue(q))]
        ELSE [o EXCEPT !.bitqueue = <<>>, !.bits = Append(@, bit),
                       !.failed = TRUE]

\* for bit in slice.iter() { self.writer.write_bit(*bit); }: the result of
\* write_bit is dropped.
RECURSIVE WriteBits(_, _, _)
WriteBits(o, slice, sink_ok) ==
    IF slice = <<>> THEN o
    ELSE WriteBits(WriteBit(o, Head(slice), sink_ok), Tail(slice), sink_ok)

\* The callback of Writer::write over the windows in order: the lookup's
\* unwrap() panics on None, else the codeword's bits are written and the
\* callback answers Ok(()).
RECURSIVE EmitWindows(_, _, _, _)
EmitWindows(e, windows, o, sink_ok) ==
    IF windows = <<>> THEN [panic |-> FALSE, o |-> o, emitted |-> <<>>]
    ELSE LET window == Head(windows)
             prefix == SubSeq(window, 1, Len(window) - 1)
             byte == window[Len(window)]
             slice == EncoderEncode(e, prefix, byte)
         IN  IF ~slice.some THEN [panic |-> TRUE, o |-> o, emitted |-> <<>>]
             ELSE LET rest == EmitWindows(e, Tail(windows),
                                          WriteBits(o, slice.bits, sink_ok), sink_ok)
                  IN  [rest EXCEPT !.emitted = <<slice.bits>> \o @]

\* What Writer::write answers: Ok(buf.len()) unless the callback panicked.
WriteResult(panic, failed) == IF panic THEN "Panic" ELSE "Ok"

\* The number of zero bits Writer::flush writes: for _ in 0..7
FlushPadBits == 7

NoEncoder == [depth |-> 0, prefixes |-> <<>>]

EncIdle ==
    /\ encoder = NoEncoder
    /\ ew_buffer = <<>>
    /\ ew_stream = <<>>
    /\ bits = <<>>
    /\ bitqueue = <<>>
    /\ sink = <<>>
    /\ ew_ret = [op |-> "none", status |-> "Ok", value |-> 0, io_failed |-> FALSE,
                 unknown |-> FALSE, before |-> 0]
    /\ ew_state = "untrained"
    /\ ew_flushes = 0
    /\ ew_events = <<>>
    /\ n_bufs = 0

\* The training pass: one write of a chunk to the Markov Writer.
TrainStep(chunk) ==
    /\ ew_state = "untrained"
    /\ LET r == MarkovWriterWrite(mw_markov, mw_buffer, chunk)
       IN  /\ mw_markov' = r.markov
           /\ mw_buffer' = r.buffer
           /\ ew_state' = IF r.status = "Ok" THEN ew_state ELSE "panicked"
    /\ mw_stream' = mw_stream \o chunk
    /\ n_writes' = n_writes + (IF chunk = <<>> THEN 0 ELSE 1)
    /\ UNCHANGED <<encoder, ew_buffer, ew_stream, bits, bitqueue, sink, ew_ret,
                   ew_flushes, ew_events, n_bufs>>

Train(chunk) ==
    /\ Len(mw_stream) + Len(chunk) <= MaxTrain
    /\ TrainStep(chunk)

\* markov.encoder() and encoder.writer(sink)
BuildEncoder ==
    /\ ew_state = "untrained"
    /\ LET d == DecoderNew(mw_markov)
       IN  IF d.panic
           THEN /\ ew_state' = "panicked"
                /\ ew_ret' = [ew_ret EXCEPT !.op = "encoder", !.status = "Panic"]
                /\ UNCHANGED encoder
           ELSE /\ ew_state' = "ready"
                /\ ew_ret' = [ew_ret EXCEPT !.op = "encoder"]
                /\ encoder' = EncoderNew(d)
    /\ UNCHANGED <<mwVars, ew_buffer, ew_stream, bits, bitqueue, sink,
                   ew_flushes, ew_events, n_bufs>>

\* A variant of the writer's windowing that starts every call from an empty
\* carry buffer.
EncoderWindowsNoCarry(depth, buf, input) ==
    BufferedWindows(depth, <<>>, input, NoFailure)

\* The windowing of Writer::write: buffered_windows over the writer's own
\* carry buffer, with a callback that never returns an error.
EncoderWindows(depth, buf, input) ==
    BufferedWindows(depth, buf, input, NoFailure)

\* <Writer as Write>::write(buf) with a sink that takes bytes (sink_ok) or
\* fails every write during the call.
EncWriteStep(buf, sink_ok) ==
    /\ ew_state = "ready"
    /\ LET w == EncoderWindows(encoder.depth, ew_buffer, buf)
           o == [bitqueue |-> bitqueue, sink |-> sink, bits |-> bits,
                 failed |-> FALSE]
           r == EmitWindows(encoder, w.calls, o, sink_ok)
       IN  /\ ew_buffer' = IF r.panic THEN ew_buffer ELSE w.buffer
           /\ bits' = r.o.bits
           /\ bitqueue' = r.o.bitqueue
           /\ sink' = r.o.sink
           /\ ew_events' = ew_events \o r.emitted
           /\ ew_state' = IF r.panic THEN "panicked" ELSE ew_state
           /\ ew_ret' = [op |-> "write", status |-> WriteResult(r.panic, r.o.failed),
                         value |-> Len(buf), io_failed |-> r.o.failed,
                         unknown |-> r.panic, before |-> Len(bits)]
    /\ ew_stream' = ew_stream \o buf
    /\ n_bufs' = n_bufs + (IF buf = <<>> THEN 0 ELSE 1)
    /\ UNCHANGED <<mwVars, encoder, ew_flushes>>

EncWrite(buf, sink_ok) ==
    /\ Len(ew_stream) + Len(buf) <= MaxEnc
    /\ EncWriteStep(buf, sink_ok)

\* <Writer as Write>::flush(): the pad bits, their results dropped, then
\* the flush of the sink, whose failure is returned.
EncFlush(sink_ok, flush_ok) ==
    /\ ew_state = "ready"
    /\ ew_flushes < MaxFlush
    /\ LET o == [bitqueue |-> bitqueue, sink |-> sink, bits |-> bits,
                 failed |-> FALSE]
           r == WriteBits(o, [i \in 1..FlushPadBits |-> 0], sink_ok)
       IN  /\ bits' = r.bits
           /\ bitqueue' = r.bitqueue
           /\ sink' = r.sink
           /\ ew_ret' = [op |-> "flush", status |-> IF flush_ok THEN "Ok" ELSE "Err",
                         value |-> 0, io_failed |-> r.failed, unknown |-> FALSE,
                         before |-> Len(bits)]
    /\ ew_flushes' = ew_flushes + 1
    /\ UNCHANGED <<mwVars, encoder, ew_buffer, ew_stream, ew_state, ew_events,
                   n_bufs>>

\* ------------------------------------------------------- specifications

\* The sliding-window primitive alone, for every window size.
InitWindows ==
    /\ window_size \in 1..MaxDepth
    /\ buffer = <<>>
    /\ stream = <<>>
    /\ calls = <<>>
    /\ w_ok = TRUE
    /\ n_chunks = 0
    /\ empty_seen = FALSE
    /\ MarkovIdle /\ MwIdle /\ HuffIdle /\ EncIdle

NextWindows ==
    \E chunk \in SeqsUpTo(Bytes, MaxStream), budget \in {0, 1, NoFailure} :
        /\ Deliver(chunk, budget)
        /\ UNCHANGED <<markovVars, mwVars, huffVars, encVars>>

SpecWindows == InitWindows /\ [][NextWindows]_vars

\* A Markov model driven through insert and get.
InitMarkov ==
    /\ \E d \in 1..MaxOrder : markov = MarkovNew(d)
    /\ m_ret = [op |-> "new", seq |-> <<>>, status |-> "Ok", value |-> 0,
                some |-> FALSE, node |-> MapNode]
    /\ inserted = <<>>
    /\ m_ops = 0
    /\ WinIdle /\ MwIdle /\ HuffIdle /\ EncIdle

InsertCall ==
    \E seq \in ApiSeqs, weight \in Weights :
        /\ Insert(seq, weight)
        /\ UNCHANGED <<winVars, mwVars, huffVars, encVars>>

GetCall ==
    \E seq \in ApiSeqs :
        /\ Get(seq)
        /\ UNCHANGED <<winVars, mwVars, huffVars, encVars>>

NextMarkov == InsertCall \/ GetCall

SpecMarkov == InitMarkov /\ [][NextMarkov]_vars

\* A Markov Writer fed chunk by chunk.
InitWriter ==
    /\ \E d \in 1..MaxDepth : mw_markov = MarkovNew(d)
    /\ mw_buffer = <<>>
    /\ mw_stream = <<>>
    /\ n_writes = 0
    /\ WinIdle /\ MarkovIdle /\ HuffIdle /\ EncIdle

WriterWrite ==
    \E input \in SeqsUpTo(Bytes, MaxStream) :
        /\ Len(mw_stream) + Len(input) <= MaxStream
        /\ LET r == MarkovWriterWrite(mw_markov, mw_buffer, input)
           IN  /\ r.status = "Ok"
               /\ mw_markov' = r.markov
               /\ mw_buffer' = r.buffer
        /\ mw_stream' = mw_stream \o input
        /\ n_writes' = n_writes + (IF input = <<>> THEN 0 ELSE 1)
        /\ UNCHANGED <<winVars, markovVars, huffVars, encVars>>

NextWriter == WriterWrite

SpecWriter == InitWriter /\ [][NextWriter]_vars

\* The Huffman builder on every weighted symbol set, in every order.
InitHuffman ==
    /\ items \in ItemLists
    /\ heap = <<>>
    /\ tree = NoNode
    /\ code = <<>>
    /\ h_pc = "new"
    /\ WinIdle /\ MarkovIdle /\ MwIdle /\ EncIdle

CollectStep == NodeNewCollect /\ UNCHANGED <<winVars, markovVars, mwVars, encVars>>
CombineStep == NodeNewCombine /\ UNCHANGED <<winVars, markovVars, mwVars, encVars>>
ReturnStep == NodeNewReturn /\ UNCHANGED <<winVars, markovVars, mwVars, encVars>>
EncodingStep == Encoding /\ UNCHANGED <<winVars, markovVars, mwVars, encVars>>

NextHuffman == CollectStep \/ CombineStep \/ ReturnStep \/ EncodingStep

SpecHuffman == InitHuffman /\ [][NextHuffman]_vars

\* Node::new and Node::encoding on the larger symbol sets.
InitHuffmanWide ==
    /\ items \in WideItemLists
    /\ heap = <<>>
    /\ tree = NoNode
    /\ code = <<>>
    /\ h_pc = "new"
    /\ WinIdle /\ MarkovIdle /\ MwIdle /\ EncIdle

SpecHuffmanWide == InitHuffmanWide /\ [][NextHuffman]_vars

\* The two passes: train a model, derive the encoder, write and flush.
InitEncode ==
    /\ \E d \in 1..MaxOrder : mw_markov = MarkovNew(d)
    /\ mw_buffer = <<>>
    /\ mw_stream = <<>>
    /\ n_writes = 0
    /\ WinIdle /\ MarkovIdle /\ HuffIdle /\ EncIdle

TrainCall ==
    \E chunk \in SeqsUpTo(Symbols, MaxTrain) :
        Train(chunk) /\ UNCHANGED <<winVars, markovVars, huffVars>>

BuildCall == BuildEncoder /\ UNCHANGED <<winVars, markovVars, huffVars>>

WriteCall ==
    \E buf \in SeqsUpTo(Symbols, MaxEnc), sink_ok \in BOOLEAN :
        EncWrite(buf, sink_ok) /\ UNCHANGED <<winVars, markovVars, huffVars>>

FlushCall ==
    \E sink_ok \in BOOLEAN, flush_ok \in BOOLEAN :
        EncFlush(sink_ok, flush_ok) /\ UNCHANGED <<winVars, markovVars, huffVars>>

NextEncode == TrainCall \/ BuildCall \/ WriteCall \/ FlushCall

SpecEncode == InitEncode /\ [][NextEncode]_vars

\* compress: the file is copied to the Markov Writer chunk by chunk, the
\* encoder is derived at its end, and the same file is copied again, chunk by
\* chunk, to the encoder's writer over the standard output.
InitCompress ==
    /\ \E d \in 1..MaxOrder : mw_markov = MarkovNew(d)
    /\ mw_buffer = <<>>
    /\ mw_stream = <<>>
    /\ n_writes = 0
    /\ WinIdle /\ MarkovIdle /\ HuffIdle /\ EncIdle

CopyToMarkov ==
    \E chunk \in SeqsUpTo(Bytes, MaxFile) :
        /\ Len(mw_stream) + Len(chunk) <= MaxFile
        /\ TrainStep(chunk)
        /\ UNCHANGED <<winVars, markovVars, huffVars>>

DeriveEncoder == BuildEncoder /\ UNCHANGED <<winVars, markovVars, huffVars>>

CopyToEncoder ==
    \E k \in 0..MaxFile, sink_ok \in BOOLEAN :
        /\ Len(ew_stream) + k <= Len(mw_stream)
        /\ EncWriteStep(SubSeq(mw_stream, Len(ew_stream) + 1, Len(ew_stream) + k),
                        sink_ok)
        /\ UNCHANGED <<winVars, markovVars, huffVars>>

NextCompress == CopyToMarkov \/ DeriveEncoder \/ CopyToEncoder

SpecCompress == InitCompress /\ [][NextCompress]_vars

Spec == SpecEncode

\* ---------------------------------------------------------------- claims

\* C1: for every window size and every split of an input into chunks
\* (empty ones included), the callbacks of the successive buffered_windows
\* calls, in order, are exactly the windows of the whole input in one pass.
C1_ChunkedWindowsEqualOnePass ==
    w_ok => calls = Windows(stream, window_size)

\* A window of size 3 was completed across three nonempty chunks and an
\* empty one.
C1_Witness ==
    /\ w_ok /\ window_size = 3 /\ n_chunks >= 3 /\ empty_seen
    /\ Len(stream) = 4 /\ Len(calls) = 2

\* C2: the model a Markov Writer builds from a list of chunks equals the
\* model built by inserting every window of their concatenation with
\* weight 1 into a fresh model of the same order (and no write of a next
\* chunk fails on the way).
C2_WriterEqualsFullInsert ==
    /\ mw_markov = WriteWindows(MarkovNew(mw_markov.depth),
                                Windows(mw_stream, mw_markov.depth)).markov
    /\ \A input \in SeqsUpTo(Bytes, MaxStream - Len(mw_stream)) :
          MarkovWriterWrite(mw_markov, mw_buffer, input).status = "Ok"

\* An order-3 model trained over three or more writes, holding three
\* windows.
C2_Witness ==
    /\ mw_markov.depth = 3 /\ n_writes >= 3 /\ Len(mw_stream) = 5
    /\ \E seq \in DOMAIN mw_markov.root : mw_markov.root[seq].kind = "Leaf"

IsPrefix(a, b) == Len(a) <= Len(b) /\ SubSeq(b, 1, Len(a)) = a

\* C3: in every context of the code table of a trained model the codewords,
\* in the order the writer transmits their bits, form a prefix code: no
\* codeword of a byte is a prefix of the codeword of another byte.
C3_CodeTableIsPrefixCode ==
    ew_state = "ready" =>
        \A c \in DOMAIN encoder.prefixes :
            \A b1, b2 \in DOMAIN encoder.prefixes[c] :
                b1 # b2 => ~IsPrefix(encoder.prefixes[c][b1], encoder.prefixes[c][b2])

\* The number of pad bits a flush that only aligns would write.
PadToBoundary(n) == (8 - (n % 8)) % 8

\* C4: flush appends exactly the zero bits that reach the next byte
\* boundary: (8 - n mod 8) mod 8 of them after n bits, none when aligned.
C4_FlushPadsToBoundary ==
    ew_ret.op = "flush" => Len(bits) - ew_ret.before = PadToBoundary(ew_ret.before)

\* C5: a write that meets a window with an unknown context or symbol
\* returns an error value to its caller and does not abort.
C5_UnknownWindowReturnsError ==
    (ew_ret.op = "write" /\ ew_ret.unknown) => ew_ret.status = "Err"

ValidSeqs(d) == [1..d -> Keys]

\* C6: insert and get of a sequence whose length differs from the order
\* return SequenceLengthError, and the failed insert leaves the trie as it
\* was.
C6_LengthMismatchFails ==
    [][(m_ret'.op \in {"insert", "get"} /\ Len(m_ret'.seq) # markov.depth)
          => (m_ret'.status = "Err" /\ markov' = markov)]_vars

\* An insert failed on a trie that holds a sequence, and the trie still
\* holds exactly what was inserted.
C6_Witness ==
    /\ m_ret.op = "insert" /\ m_ret.status = "Err"
    /\ Len(m_ret.seq) > markov.depth
    /\ DOMAIN inserted # {}

\* C7: after any inserts of sequences of the model's length, get of an
\* inserted sequence returns a leaf whose weight is the saturating sum of
\* the weights inserted for it (so at least each of them), each insert
\* returns that leaf's new total, and get of a sequence never inserted
\* returns absent.
C7_GetReturnsSaturatingSum ==
    /\ \A seq \in ValidSeqs(markov.depth) :
          LET r == MarkovGet(markov, seq)
          IN  /\ r.status = "Ok"
              /\ IF seq \in DOMAIN inserted
                 THEN /\ r.some
                      /\ r.node.kind = "Leaf"
                      /\ r.node.weight = Min(inserted[seq].sum, UsizeMax)
                      /\ r.node.weight >= inserted[seq].max
                 ELSE ~r.some
    /\ (m_ret.op = "insert" /\ m_ret.status = "Ok") =>
          /\ m_ret.seq \in DOMAIN inserted
          /\ m_ret.value = Min(inserted[m_ret.seq].sum, UsizeMax)
    /\ (m_ret.op = "get" /\ m_ret.status = "Ok") =>
          /\ m_ret.some = (m_ret.seq \in DOMAIN inserted)
          /\ m_ret.some => m_ret.node =
                LeafNode(Min(inserted[m_ret.seq].sum, UsizeMax))

\* A sequence was inserted twice with weights whose sum passes the largest
\* integer, and the get after it returned the leaf.
C7_Witness ==
    /\ m_ret.op = "get" /\ m_ret.some
    /\ inserted[m_ret.seq].n = 2
    /\ inserted[m_ret.seq].sum > UsizeMax
    /\ markov.depth = 2

ItemBytes == {items[i].item : i \in 1..Len(items)}

\* C8: for a nonempty weighted symbol set with distinct bytes the leaves of
\* the tree are exactly the input bytes, each once, the encoding has a
\* codeword for exactly the input bytes, and a single symbol gives a bare
\* leaf with a codeword of length zero.
C8_LeavesAndCodewords ==
    /\ h_pc \in {"built", "encoded"} =>
          LET ls == Leaves(tree.node)
          IN  /\ {ls[i] : i \in 1..Len(ls)} = ItemBytes
              /\ Len(ls) = Len(items)
              /\ Len(items) = 1 => tree.node = Leaf(items[1].item)
    /\ h_pc = "encoded" =>
          /\ DOMAIN code = ItemBytes
          /\ Len(items) = 1 => code[items[1].item] = <<>>
    /\ (h_pc \in {"none", "built", "encoded"} /\ items # <<>>) => tree.some

\* Three symbols, one of weight zero, were built into a tree and encoded.
C8_Witness ==
    /\ h_pc = "encoded" /\ Len(items) = 3
    /\ \E i \in 1..3 : items[i].weight = 0

Orderings(its) ==
    {[i \in 1..Len(its) |-> its[f[i]]] :
        f \in {g \in [1..Len(its) -> 1..Len(its)] :
                  \A i, j \in 1..Len(its) : i # j => g[i] # g[j]}}

\* C9: Node::new on any ordering of the same weighted symbols (distinct
\* bytes) returns the same tree.
C9_OrderIndependent ==
    h_pc \in {"built", "encoded"} =>
        \A its \in Orderings(items) : NodeNew(its) = tree

\* Three symbols of equal weight, handed over in descending byte order.
C9_Witness ==
    /\ h_pc = "built" /\ Len(items) = 3
    /\ items[1].weight = items[2].weight /\ items[2].weight = items[3].weight
    /\ items[1].item > items[2].item /\ items[2].item > items[3].item

\* C10: a failure of the sink while write or flush emits bits reaches the
\* caller of that call as an error; no such call reports success.
C10_SinkFailurePropagates ==
    ew_ret.io_failed => ew_ret.status = "Err"

Max(a, b) == IF a > b THEN a ELSE b

\* C11: while every lookup succeeds, an encoder writer of order D that has
\* taken N bytes, in any chunking, has emitted exactly max(0, N - D + 1)
\* codewords; the i-th is the codeword of byte i + D - 1 of the stream under
\* the context of the D - 1 bytes before it, and the first D - 1 bytes emit
\* no bits.
C11_CodewordsInStreamOrder ==
    ew_state = "ready" =>
        LET D == encoder.depth
            N == Len(ew_stream)
        IN  /\ Len(ew_events) = Max(0, N - D + 1)
            /\ \A i \in 1..Len(ew_events) :
                   LET prefix == SubSeq(ew_stream, i, i + D - 2)
                       byte == ew_stream[i + D - 1]
                   IN  /\ prefix \in DOMAIN encoder.prefixes
                       /\ byte \in DOMAIN encoder.prefixes[prefix]
                       /\ ew_events[i] = encoder.prefixes[prefix][byte]
            /\ (N < D /\ ew_flushes = 0) => bits = <<>>

\* Order 2 and the file 0 0 0 1, trained and then encoded in several chunks
\* each: three codewords of one bit each.
C11_Witness ==
    /\ ew_state = "ready" /\ encoder.depth = 2
    /\ mw_stream = <<0, 0, 0, 1>> /\ ew_stream = mw_stream
    /\ n_writes >= 2 /\ n_bufs >= 2
    /\ Len(ew_events) = 3
    /\ \A i \in 1..3 : Len(ew_events[i]) = 1
    /\ Len(bits) = 3

\* The branch bits met on the way from the root of n down to the leaf of
\* byte b: 0 into a left child, 1 into a right child, the root's first.
RECURSIVE DescentPath(_, _)
DescentPath(n, b) ==
    IF IsLeaf(n) THEN <<>>
    ELSE IF \E i \in 1..Len(Leaves(n.left)) : Leaves(n.left)[i] = b
         THEN <<0>> \o DescentPath(n.left, b)
         ELSE <<1>> \o DescentPath(n.right, b)

\* C12: the codeword the code table holds for a byte under a context, and
\* every codeword the writer has transmitted, is the sequence of branch bits
\* from the root of the context's tree down to the byte's leaf, the branch
\* taken at the root first.
C12_CodewordIsDescentPath ==
    ew_state = "ready" =>
        LET trees == DecoderNew(mw_markov).trees
            D == encoder.depth
        IN  /\ \A c \in DOMAIN encoder.prefixes :
                   \A b \in DOMAIN encoder.prefixes[c] :
                       encoder.prefixes[c][b] = DescentPath(trees[c], b)
            /\ \A i \in 1..Len(ew_events) :
                   ew_events[i] = DescentPath(trees[SubSeq(ew_stream, i, i + D - 2)],
                                              ew_stream[i + D - 1])

\* C13: for every window size W and every sequence of chunk deliveries whose
\* callbacks succeed, after each call the carry buffer holds exactly the last
\* min(W - 1, total) elements of the stream delivered so far, in stream
\* order (so it never exceeds W - 1 elements and an empty chunk leaves it as
\* it was).
C13_CarryIsStreamTail ==
    w_ok =>
        LET total == Len(stream)
            keep == IF window_size - 1 < total THEN window_size - 1 ELSE total
        IN  /\ Len(buffer) = keep
            /\ \A i \in 1..keep : buffer[i] = stream[total - keep + i]

\* Window size 4 and five elements delivered in three nonempty chunks and an
\* empty one: the carry holds the last three, not all equal.
C13_Witness ==
    /\ w_ok /\ window_size = 4 /\ Len(stream) = 5
    /\ n_chunks >= 3 /\ empty_seen
    /\ buffer = SubSeq(stream, 3, 5) /\ buffer[1] # buffer[3]

\* The order of the specified procedure: weight ascending, then a leaf before
\* an internal node, then leaves by byte ascending, then internal nodes by
\* their left children and then their right children.
RECURSIVE RanksBelow(_, _)
RanksBelow(x, y) ==
    IF IsLeaf(x) /\ IsLeaf(y) THEN x.leaf < y.leaf
    ELSE IF IsLeaf(x) THEN TRUE
    ELSE IF IsLeaf(y) THEN FALSE
    ELSE \/ RanksBelow(x.left, y.left)
         \/ (x.left = y.left /\ RanksBelow(x.right, y.right))

EntryRanksBelow(a, b) ==
    \/ a.weight < b.weight
    \/ (a.weight = b.weight /\ RanksBelow(a.node, b.node))

LowestRanked(S) == CHOOSE e \in S : \A f \in S \ {e} : EntryRanksBelow(e, f)

\* The specified procedure on a set of entries: remove the two lowest-ranked,
\* join them (first removed on the left) under the saturating sum, reinsert,
\* until one entry remains.
RECURSIVE Procedure(_)
Procedure(S) ==
    IF Cardinality(S) = 1 THEN (CHOOSE e \in S : TRUE).node
    ELSE LET first == LowestRanked(S)
             second == LowestRanked(S \ {first})
             sum == IF first.weight + second.weight > UsizeMax
                    THEN UsizeMax ELSE first.weight + second.weight
         IN  Procedure((S \ {first, second}) \cup
                       {[weight |-> sum, node |-> Branch(first.node, second.node)]})

\* C14: for any nonempty weighted symbol set with distinct bytes, the tree
\* Node::new returns is the tree of the specified procedure.
C14_TreeIsProcedureTree ==
    (h_pc \in {"built", "encoded"} /\ items # <<>>) =>
        /\ tree.some
        /\ tree.node = Procedure({[weight |-> items[i].weight,
                                   node |-> Leaf(items[i].item)] :
                                      i \in 1..Len(items)})

\* Four symbols of equal weight, not in byte order: two internal nodes of
\* equal weight were compared by their children.
C14_Witness ==
    /\ h_pc = "built" /\ Len(items) = 4
    /\ \A i \in 1..4 : items[i].weight = 1
    /\ items[1].item > items[2].item
    /\ tree.some /\ ~IsLeaf(tree.node)
    /\ ~IsLeaf(tree.node.left) /\ ~IsLeaf(tree.node.right)

\* C15: in every model reached from Markov::new(D) by insert calls, failing
\* ones included, every node above depth D is a byte-keyed map, every node at
\* depth D is a weight leaf, and there is no node below depth D: every path
\* from the root to a leaf has length exactly D.
C15_LeavesExactlyAtDepth ==
    \A p \in DOMAIN markov.root :
        /\ Len(p) <= markov.depth
        /\ Len(p) < markov.depth => markov.root[p].kind = "Node"
        /\ Len(p) = markov.depth => markov.root[p].kind = "Leaf"
        /\ p # <<>> => SubSeq(p, 1, Len(p) - 1) \in DOMAIN markov.root

\* An order-2 model with two leaves under different first bytes, just after
\* an insert of a wrong length failed.
C15_Witness ==
    /\ markov.depth = 2
    /\ m_ret.op = "insert" /\ m_ret.status = "Err"
    /\ \E p, q \in DOMAIN markov.root :
           Len(p) = 2 /\ Len(q) = 2 /\ p[1] # q[1]

\* C16: for every model reached from Markov::new(D) by valid insertions, the
\* model with none included, every context iter_prefix yields carries a
\* nonempty list of weighted symbols, and building the Decoder / Encoder
\* from the model succeeds (stated of the model each time an encoder is
\* built from it).
C16_ContextsNeverEmpty ==
    ew_ret.op = "encoder" =>
        LET it == MarkovIterPrefix(mw_markov)
        IN  /\ ~it.panic
            /\ \A i \in 1..Len(it.out) : it.out[i][2] # <<>>
            /\ ew_ret.status # "Panic"

\* C17: when a model is trained on a file through the Markov Writer under
\* any chunking and an encoder could be built from it, writing the same file
\* to the encoder's writer under any chunking never meets an unknown context
\* or an unknown symbol: every write returns without a failed lookup, and
\* nothing but the building of the encoder ever panics.
C17_EveryLookupSucceeds ==
    /\ ew_ret.op = "write" => (~ew_ret.unknown /\ ew_ret.status # "Panic")
    /\ ew_state = "panicked" => ew_ret.op = "encoder"

\* An order-2 file of four bytes with both bytes as contexts, trained in
\* three chunks and encoded to its end in two.
C17_Witness ==
    /\ ew_state = "ready" /\ encoder.depth = 2
    /\ mw_stream = <<0, 1, 1, 0>> /\ ew_stream = mw_stream
    /\ n_writes = 3 /\ n_bufs = 2
    /\ ew_ret.op = "write" /\ ew_ret.status = "Ok" /\ ew_ret.value > 0
    /\ Len(ew_events) = 3

====
